---- MODULE Spec2Model ----
(***************************************************************************)
(* The game-state route of src/app/page.tsx (lines 502-698): the shared    *)
(* gameState object, the GET handler with its cleanup pass and the POST    *)
(* handler with its five intents.                                          *)
(*                                                                         *)
(* Numbers are integers (the code's clamps and comparisons do not depend   *)
(* on fractions).  Date.now() is the variable clock; it never runs         *)
(* backwards here.  Math.random() is a choice from a small set.  A food id *)
(* `food-${Date.now()}-${Math.random()}` is a fresh number.                *)
(***************************************************************************)
EXTENDS Integers, Sequences, FiniteSets, TLC

\* ---------------------------------------------------------------- constants
CANVAS_WIDTH == 800
CANVAS_HEIGHT == 600
PLAYER_SIZE == 20
FOOD_SIZE == 8
FOOD_COUNT == 50
PLAYER_TIMEOUT == 10000

\* Date.now() when the module is loaded (line 538).
StartTime == 1000

\* ------------------------------------------------------------------- bounds
\* The clock runs from StartTime to StartTime + MaxElapsed.
MaxElapsed == 10001
\* The client's player walks within MaxWalk movement ticks of the right edge.
MaxWalk == 3
\* At most MaxRuns runs of updateGame are in flight at once.
MaxRuns == 1

\* ------------------------------------------------------------------- inputs
PlayerIds == {"p1", "p2"}
Usernames == {"ann"}
\* (x, y) of a move intent: far out of range, negative, in range.
MoveInputs == {<<100000, 0 - 50>>, <<0 - 7, 300>>}
\* Food ids a collectFood intent names: two items of the initial pool.
FoodIdInputs == {1, 2}
\* Amounts by which Date.now() is seen to advance between two events.
TickSteps == {5000, 5001}
\* Outcomes of the three Math.random() calls of a join: x in [0, 780),
\* y in [0, 580), and the index Math.floor(Math.random() * colors.length).
JoinDraws == {<<779, 579, 7>>}
\* Outcomes of the three Math.random() calls of generateFood: x in [0, 792),
\* y in [0, 592), and the colour index; out of reach of the positions the
\* players take here.
FoodDraws == {<<100, 100, 4>>}
\* Two request handlers that can be suspended at `await request.json()`
\* at the same time.
Slots == {"a", "b"}

VARIABLES
    clock,       \* Date.now()
    players,     \* gameState.players: id -> Player
    food,        \* gameState.food
    lastUpdate,  \* gameState.lastUpdate
    foodSeq,     \* number of food ids generated so far
    lastCleanup, \* the locals of the last cleanupPlayers run: now, playersToRemove
    snapshot,    \* the body of the last GET response a polling reader received
    requests,    \* per slot: the POST request suspended at request.json()
    responses,   \* per slot: the request last answered, with its response
    client,      \* the page component: its React state and its refs
    net          \* the client's calls in flight, with their responses

vars == <<clock, players, food, lastUpdate, foodSeq, lastCleanup, snapshot, requests, responses,
          client, net>>

\* ------------------------------------------------------------------ helpers
Max(a, b) == IF a > b THEN a ELSE b
Min(a, b) == IF a < b THEN a ELSE b

PlayerColors ==
    <<"#FF6B6B", "#4ECDC4", "#45B7D1", "#96CEB4", "#FFEAA7", "#DDA0DD", "#98D8C8", "#F7DC6F">>

\* generateColor with Math.floor(Math.random() * colors.length) = k.
generateColor(k) == PlayerColors[k + 1]

FoodColors == <<"#FF4757", "#2ED573", "#3742FA", "#FF6348", "#FFA502">>

\* generateFood: n is the fresh id, draw the outcomes of Math.random().
generateFood(n, draw) ==
    [id |-> n, x |-> draw[1], y |-> draw[2], color |-> FoodColors[draw[3] + 1]]

\* The pool initializeFood builds when the list is empty; the FOOD_COUNT
\* items share one draw of position and colour, their ids are fresh.
initializeFood(f, seq, draw) ==
    IF Len(f) = 0
    THEN [i \in 1..FOOD_COUNT |-> generateFood(seq + i, draw)]
    ELSE f

\* Array.prototype.findIndex: the first index whose item has the id, 0 for -1.
findIndex(f, fid) ==
    IF \E i \in 1..Len(f) : f[i].id = fid
    THEN CHOOSE i \in 1..Len(f) : f[i].id = fid /\ \A j \in 1..(i - 1) : f[j].id # fid
    ELSE 0

\* splice, had it been given the index after the one found.
spliceNext(f, i) ==
    IF i + 1 > Len(f) THEN f
    ELSE [j \in 1..(Len(f) - 1) |-> IF j < i + 1 THEN f[j] ELSE f[j + 1]]

\* Array.prototype.splice(i, 1).
splice(f, i) == [j \in 1..(Len(f) - 1) |-> IF j < i THEN f[j] ELSE f[j + 1]]

\* collected, had the replacement never been pushed.
collectedNoSpawn(f, i, newFood) == splice(f, i)

\* The food list after the item at index i is collected (lines 651-660):
\* spliced out, and the replacement pushed.
collected(f, i, newFood) == Append(splice(f, i), newFood)

\* clampX, had the bounds check been left out.
clampXNone(x) == x

\* The bounds check of the move intent.
clampX(x) == Max(0, Min(CANVAS_WIDTH - PLAYER_SIZE, x))
clampY(y) == Max(0, Min(CANVAS_HEIGHT - PLAYER_SIZE, y))

\* timedOut, had the subtraction been written the other way round.
timedOutSwapped(now, player) == player.lastUpdate - now > PLAYER_TIMEOUT

\* The eviction test of cleanupPlayers.
timedOut(now, player) == now - player.lastUpdate > PLAYER_TIMEOUT

\* The public projection of GET.
publicPlayer(p) ==
    [id |-> p.id, username |-> p.username, x |-> p.x, y |-> p.y,
     color |-> p.color, score |-> p.score]

\* Map.prototype.set and Map.prototype.delete.
mapSet(m, k, v) == [i \in DOMAIN m \cup {k} |-> IF i = k THEN v ELSE m[i]]
mapDelete(m, K) == [i \in DOMAIN m \ K |-> m[i]]

\* ----------------------------------------------------------------- messages
NoRequest == [type |-> "none", playerId |-> "", username |-> "", x |-> 0, y |-> 0, foodId |-> 0]
NoResponse == [status |-> 0, success |-> FALSE, playerScore |-> 0, newFood |-> 0]
NoSnapshot == [players |-> <<>>, food |-> <<>>, lastUpdate |-> 0]
NoAnswer == [request |-> NoRequest, response |-> NoResponse,
             known |-> FALSE, found |-> FALSE, during |-> {}]

JoinRequest(id, name) == [NoRequest EXCEPT !.type = "join", !.playerId = id, !.username = name]
MoveRequest(id, pos) == [NoRequest EXCEPT !.type = "move", !.playerId = id, !.x = pos[1], !.y = pos[2]]
CollectRequest(id, fid) == [NoRequest EXCEPT !.type = "collectFood", !.playerId = id, !.foodId = fid]
HeartbeatRequest(id) == [NoRequest EXCEPT !.type = "heartbeat", !.playerId = id]
LeaveRequest(id) == [NoRequest EXCEPT !.type = "leave", !.playerId = id]
UnknownRequest(id) == [NoRequest EXCEPT !.type = "dance", !.playerId = id]

JoinRequests == {JoinRequest(id, name) : id \in PlayerIds, name \in Usernames}
MoveRequests == {MoveRequest(id, pos) : id \in PlayerIds, pos \in MoveInputs}
CollectRequests == {CollectRequest(id, fid) : id \in PlayerIds, fid \in FoodIdInputs}
HeartbeatRequests == {HeartbeatRequest(id) : id \in PlayerIds}
LeaveRequests == {LeaveRequest(id) : id \in PlayerIds}
UnknownRequests == {UnknownRequest(id) : id \in PlayerIds}

\* NextResponse.json(body, {status}).
Json(status, success) == [NoResponse EXCEPT !.status = status, !.success = success]

\* ------------------------------------------------------------- the client
\* The page component (lines 33-337).  Its field carries the same sizes
\* (lines 26-29) as the server's.
MOVE_SPEED == 3

\* The ids Math.random().toString(36).substr(2, 9) gives the client (line 75).
ClientIds == {"p1"}
\* The sets of keys held down during a movement tick.
KeyInputs == {{}, {"a"}, {"d"}}

\* movementQueueRef.current = null.
NoMove == [x |-> 0 - 1, y |-> 0 - 1]
\* The values of myPlayerId and lastServerUpdate a startGameUpdates callback,
\* and the updateGame it defines, close over (lines 102-143).
Closure(id, counter) == [myPlayerId |-> id, lastServerUpdate |-> counter]
\* updateIntervalRef.current with no interval running.
NoTimer == [set |-> FALSE, closure |-> Closure("", 0)]
\* A POST the client awaits: idle, sent, or answered (ok: the fetch resolved
\* with response.ok; otherwise apiCall throws, lines 50-67).
NoCall == [stage |-> "idle", ok |-> FALSE, request |-> NoRequest]
\* One run of updateGame: idle, awaiting its move POST, or awaiting its GET.
NoUpdate ==
    [pc |-> "idle", stage |-> "idle", ok |-> FALSE, closure |-> Closure("", 0),
     request |-> NoRequest, body |-> NoSnapshot]

\* The component when it is mounted (lines 34-47).  frames counts the
\* animation frames that have run, modulo 2: every frame requests the next
\* one and stores its new id in animationFrameRef (line 223).
InitClient ==
    [gameState |-> "login",
     username |-> "",
     players |-> <<>>,
     food |-> <<>>,
     myPlayerId |-> "",
     connectionStatus |-> "disconnected",
     lastServerUpdate |-> 0,
     keysRef |-> {},
     lastPositionRef |-> [x |-> 0, y |-> 0],
     updateIntervalRef |-> NoTimer,
     movementQueueRef |-> NoMove,
     frames |-> 0,
     connectToGame |-> [username |-> "", startGameUpdates |-> Closure("", 0)]]

InitNet ==
    [join |-> NoCall,
     leave |-> NoCall,
     update |-> [s \in Slots |-> NoUpdate],
     collects |-> {}]

\* --------------------------------------------------------------------- Init
Init ==
    /\ clock = StartTime
    /\ players = <<>>
    /\ food = <<>>
    /\ lastUpdate = StartTime
    /\ foodSeq = 0
    /\ lastCleanup = [now |-> 0, playersToRemove |-> {}]
    /\ snapshot = NoSnapshot
    /\ requests = [s \in Slots |-> NoRequest]
    /\ responses = [s \in Slots |-> NoAnswer]
    /\ client = InitClient
    /\ net = InitNet

\* ----------------------------------------------------------------- handlers
\* Each POST case below is the handler from its resumption after
\* `await request.json()` to its return: it reads Date.now() and the shared
\* state only then, and runs to the end without another await.  The case is
\* an action on the shared state and an operator for the response it returns.

\* case "join" (lines 610-626).
Join(r) ==
    LET now == clock
    IN  /\ r.type = "join"
        /\ \E draw \in JoinDraws, fdraw \in FoodDraws :
            LET newPlayer ==
                    [id |-> r.playerId, username |-> r.username,
                     x |-> draw[1], y |-> draw[2], color |-> generateColor(draw[3]),
                     score |-> 0, lastUpdate |-> now]
            IN  /\ food' = initializeFood(food, foodSeq, fdraw)
                /\ foodSeq' = IF Len(food) = 0 THEN foodSeq + FOOD_COUNT ELSE foodSeq
                /\ players' = mapSet(players, r.playerId, newPlayer)
                /\ lastUpdate' = now

joinResponse(r) == Json(200, TRUE)

\* Move, had it created a record for a player it does not know.
MoveCreates(r) ==
    LET now == clock
    IN  /\ r.type = "move"
        /\ players' = mapSet(players, r.playerId,
                             [id |-> r.playerId, username |-> "", x |-> clampX(r.x),
                              y |-> clampY(r.y), color |-> generateColor(0),
                              score |-> 0, lastUpdate |-> now])
        /\ lastUpdate' = now
        /\ UNCHANGED <<food, foodSeq>>

\* case "move" (lines 628-642).
Move(r) ==
    LET now == clock
    IN  /\ r.type = "move"
        /\ IF r.playerId \in DOMAIN players
           THEN /\ players' = [players EXCEPT ![r.playerId] =
                                [@ EXCEPT !.x = clampX(r.x), !.y = clampY(r.y),
                                          !.lastUpdate = now]]
                /\ lastUpdate' = now
           ELSE UNCHANGED <<players, lastUpdate>>
        /\ UNCHANGED <<food, foodSeq>>

moveResponse(r) == Json(200, TRUE)

\* case "collectFood" (lines 644-672).
CollectFood(r) ==
    LET now == clock
        foodIndex == findIndex(food, r.foodId)
    IN  /\ r.type = "collectFood"
        /\ IF r.playerId \in DOMAIN players /\ foodIndex # 0
           THEN \E fdraw \in FoodDraws :
                LET newFood == generateFood(foodSeq + 1, fdraw)
                IN  /\ food' = collected(food, foodIndex, newFood)
                    /\ foodSeq' = foodSeq + 1
                    /\ players' = [players EXCEPT ![r.playerId] =
                                    [@ EXCEPT !.score = @ + 1, !.lastUpdate = now]]
                    /\ lastUpdate' = now
           ELSE UNCHANGED <<players, food, foodSeq, lastUpdate>>

\* The response of the collectFood case, from the state it ran in.
collectResponse(r) ==
    IF r.playerId \in DOMAIN players /\ findIndex(food, r.foodId) # 0
    THEN [Json(200, TRUE) EXCEPT !.playerScore = players[r.playerId].score + 1,
                                 !.newFood = foodSeq + 1]
    ELSE Json(200, FALSE)

\* Heartbeat, had it stored a record for a player it does not know.
HeartbeatCreates(r) ==
    LET now == clock
    IN  /\ r.type = "heartbeat"
        /\ players' = IF r.playerId \in DOMAIN players
                      THEN [players EXCEPT ![r.playerId].lastUpdate = now]
                      ELSE mapSet(players, r.playerId,
                                  [id |-> r.playerId, username |-> "", x |-> 0, y |-> 0,
                                   color |-> generateColor(0), score |-> 0,
                                   lastUpdate |-> now])
        /\ UNCHANGED <<food, foodSeq, lastUpdate>>

\* Heartbeat, had it set gameState.lastUpdate as the other cases do.
HeartbeatBump(r) ==
    LET now == clock
    IN  /\ r.type = "heartbeat"
        /\ IF r.playerId \in DOMAIN players
           THEN /\ players' = [players EXCEPT ![r.playerId].lastUpdate = now]
                /\ lastUpdate' = now
           ELSE UNCHANGED <<players, lastUpdate>>
        /\ UNCHANGED <<food, foodSeq>>

\* case "heartbeat" (lines 674-681).
Heartbeat(r) ==
    LET now == clock
    IN  /\ r.type = "heartbeat"
        /\ IF r.playerId \in DOMAIN players
           THEN players' = [players EXCEPT ![r.playerId].lastUpdate = now]
           ELSE UNCHANGED players
        /\ UNCHANGED <<food, foodSeq, lastUpdate>>

heartbeatResponse(r) == Json(200, TRUE)

\* case "leave" (lines 683-689).
Leave(r) ==
    LET now == clock
    IN  /\ r.type = "leave"
        /\ IF r.playerId \in DOMAIN players
           THEN /\ players' = mapDelete(players, {r.playerId})
                /\ lastUpdate' = now
           ELSE UNCHANGED <<players, lastUpdate>>
        /\ UNCHANGED <<food, foodSeq>>

leaveResponse(r) == Json(200, TRUE)

\* default (lines 691-692).
Default(r) ==
    /\ r.type \notin {"none", "join", "move", "collectFood", "heartbeat", "leave"}
    /\ UNCHANGED <<players, food, lastUpdate, foodSeq>>

\* The default case, had it acknowledged the request as the other cases do.
defaultResponseOk(r) == Json(200, TRUE)

\* { error: "Unknown action" } with status 400: no success field.
defaultResponse(r) == Json(400, FALSE)

\* cleanupPlayers (lines 566-583): the ids it removes at time now.
playersToRemove(now) == {id \in DOMAIN players : timedOut(now, players[id])}

\* The counter after cleanupPlayers has removed the ids of gone.
cleanupCounter(now, gone) == IF Cardinality(gone) > 0 THEN now ELSE lastUpdate

\* cleanupPlayers, the state change of GET (lines 585-586).
cleanupPlayers ==
    LET now == clock
        gone == playersToRemove(now)
    IN  /\ lastCleanup' = [now |-> now, playersToRemove |-> gone]
        /\ players' = mapDelete(players, gone)
        /\ lastUpdate' = cleanupCounter(now, gone)
        /\ UNCHANGED <<food, foodSeq>>

\* The body of the GET response (lines 588-601), built from the state
\* cleanupPlayers left.
getBody(ps, f, counter) ==
    [players |-> [id \in DOMAIN ps |-> publicPlayer(ps[id])],
     food |-> f,
     lastUpdate |-> counter]

\* ------------------------------------------------------------------ actions
\* Time passes.
Tick ==
    /\ \E d \in TickSteps :
        /\ clock + d <= StartTime + MaxElapsed
        /\ clock' = clock + d
    /\ UNCHANGED <<players, food, lastUpdate, foodSeq, lastCleanup, snapshot, requests, responses,
                   client, net>>

\* A POST handler's step leaves everything but the shared game state alone.
Alone == UNCHANGED <<clock, lastCleanup, snapshot, requests, responses, client, net>>

\* One request at a time: it arrives and its handler runs to the end.
JoinStep == \E r \in JoinRequests : Join(r) /\ Alone
MoveStep == \E r \in MoveRequests : Move(r) /\ Alone
CollectFoodStep ==
    \E r \in CollectRequests : CollectFood(r) /\ Alone
HeartbeatStep ==
    \E r \in HeartbeatRequests : Heartbeat(r) /\ Alone
LeaveStep == \E r \in LeaveRequests : Leave(r) /\ Alone
DefaultStep ==
    \E r \in UnknownRequests : Default(r) /\ Alone

\* GET (lines 585-602), its response read by nobody the model follows.
GET == cleanupPlayers /\ UNCHANGED <<clock, snapshot, requests, responses, client, net>>

Next ==
    \/ Tick
    \/ JoinStep
    \/ MoveStep
    \/ CollectFoodStep
    \/ HeartbeatStep
    \/ LeaveStep
    \/ DefaultStep
    \/ GET

Spec == Init /\ [][Next]_vars

\* ------------------------------------------------ requests in flight at once
\* The slots whose handler is suspended at request.json().
Pending == {s \in Slots : requests[s] # NoRequest}

\* The intents that arrive while another request is in flight.
RaceRequests == JoinRequests \cup CollectRequests \cup LeaveRequests

\* A POST request arrives at a free slot; its handler runs up to
\* `await request.json()` (lines 604-606).  Whoever sent the slot's earlier
\* request has taken its response by now.
Receive ==
    /\ \E s \in Slots, r \in RaceRequests :
        /\ requests[s] = NoRequest
        /\ requests' = [requests EXCEPT ![s] = r]
        /\ responses' = [t \in Slots |->
                            IF t = s THEN NoAnswer
                            ELSE [responses[t] EXCEPT !.during = @ \ {s}]]
    /\ UNCHANGED <<clock, players, food, lastUpdate, foodSeq, lastCleanup, snapshot, client, net>>

\* The response of the switch (lines 609-693) to request r.
postResponse(r) ==
    CASE r.type = "join" -> joinResponse(r)
      [] r.type = "move" -> moveResponse(r)
      [] r.type = "collectFood" -> collectResponse(r)
      [] r.type = "heartbeat" -> heartbeatResponse(r)
      [] r.type = "leave" -> leaveResponse(r)
      [] OTHER -> defaultResponse(r)

\* The handler of slot s has run to its return: the slot holds its request
\* and response, whether it found its player (known) and its food (found),
\* and the slots whose requests were in flight meanwhile (during).
Answered(s) ==
    LET r == requests[s]
    IN  /\ r # NoRequest
        /\ requests' = [requests EXCEPT ![s] = NoRequest]
        /\ responses' = [responses EXCEPT ![s] =
                            [request |-> r,
                             response |-> postResponse(r),
                             known |-> r.playerId \in DOMAIN players,
                             found |-> findIndex(food, r.foodId) # 0,
                             during |-> Pending \ {s}]]
        /\ UNCHANGED <<clock, lastCleanup, snapshot, client, net>>

ResumeJoin == \E s \in Slots : Join(requests[s]) /\ Answered(s)
ResumeCollectFood == \E s \in Slots : CollectFood(requests[s]) /\ Answered(s)
ResumeLeave == \E s \in Slots : Leave(requests[s]) /\ Answered(s)

RaceNext ==
    \/ Receive
    \/ ResumeJoin
    \/ ResumeCollectFood
    \/ ResumeLeave

\* Requests that overlap, all within one reading of Date.now().
SpecRace == Init /\ [][RaceNext]_vars

\* ----------------------------------------------------- a reader that polls
\* GET (lines 585-602), its response kept by the reader.
Poll ==
    /\ cleanupPlayers
    /\ snapshot' = getBody(players', food', lastUpdate')
    /\ UNCHANGED <<clock, requests, responses, client, net>>

PollNext ==
    \/ Tick
    \/ JoinStep
    \/ MoveStep
    \/ LeaveStep
    \/ Poll

SpecPoll == Init /\ [][PollNext]_vars

\* ------------------------------------- one POST at a time, its response kept
\* The handler of request r, from `await request.json()` to its return.
handle(r) ==
    \/ Join(r)
    \/ Move(r)
    \/ CollectFood(r)
    \/ Heartbeat(r)
    \/ Leave(r)
    \/ Default(r)

\* The intents posted here: every intent of every id, but only p1 ever joins,
\* so that the other id stays unknown to the server.
PostRequests ==
    {r \in JoinRequests : r.playerId = "p1"}
        \cup MoveRequests \cup CollectRequests \cup HeartbeatRequests
        \cup LeaveRequests \cup UnknownRequests

\* A POST request arrives and is answered; slot "a" keeps the request, the
\* response, and whether the handler found the player and the food.
PostStep ==
    \E r \in PostRequests :
        /\ handle(r)
        /\ responses' = [responses EXCEPT !["a"] =
                            [request |-> r,
                             response |-> postResponse(r),
                             known |-> r.playerId \in DOMAIN players,
                             found |-> findIndex(food, r.foodId) # 0,
                             during |-> {}]]
        /\ UNCHANGED <<clock, lastCleanup, snapshot, requests, client, net>>

PostNext ==
    \/ Tick
    \/ PostStep

SpecPost == Init /\ [][PostNext]_vars

\* ----------------------------------------------- the client and the server
\* What a client step leaves alone on the server's side.
ServerAlone ==
    UNCHANGED <<clock, players, food, lastUpdate, foodSeq, lastCleanup, snapshot,
                requests, responses>>

\* What a server step for a client's call leaves alone.
CallAlone == UNCHANGED <<clock, snapshot, requests, responses, client>>

\* The slots in which no run of updateGame is in flight, and whether another
\* run may start.
Idle == {s \in Slots : net.update[s].pc = "idle"}
FreeSlot == CHOOSE s \in Idle : TRUE
MayRun == Idle # {} /\ Cardinality(Slots \ Idle) < MaxRuns

\* updateGame (lines 107-121) with the closure cl, from its call to its first
\* await: the move POST if a move is pending and the closure's myPlayerId is
\* not empty, the GET otherwise.
updateGame(cl) ==
    IF client.movementQueueRef # NoMove /\ cl.myPlayerId # ""
    THEN [NoUpdate EXCEPT !.pc = "move", !.stage = "sent", !.closure = cl,
                          !.request = MoveRequest(cl.myPlayerId,
                                                  <<client.movementQueueRef.x,
                                                    client.movementQueueRef.y>>)]
    ELSE [NoUpdate EXCEPT !.pc = "get", !.stage = "sent", !.closure = cl]

\* onChange of the username input on the login screen (line 361).  The render
\* it causes makes a new connectToGame (deps [username], line 99), which
\* closes over the username and the startGameUpdates of that render and so
\* over that render's myPlayerId and lastServerUpdate (deps, line 143).
HandleChange ==
    /\ client.gameState = "login"
    /\ \E name \in Usernames \cup {""} :
        /\ name # client.username
        /\ client' = [client EXCEPT
                        !.username = name,
                        !.connectToGame =
                            [username |-> name,
                             startGameUpdates |->
                                Closure(client.myPlayerId, client.lastServerUpdate)]]
    /\ UNCHANGED net
    /\ ServerAlone

\* connectToGame (lines 70-83) up to `await apiCall(join)`.
connectToGame ==
    \E playerId \in ClientIds :
        /\ client' = [client EXCEPT !.gameState = "connecting",
                                    !.connectionStatus = "connecting",
                                    !.myPlayerId = playerId]
        /\ net' = [net EXCEPT !.join =
                      [stage |-> "sent", ok |-> FALSE,
                       request |-> JoinRequest(playerId, client.connectToGame.username)]]

\* handleJoinGame (lines 294-298): Play Now on the login screen.
HandleJoinGame ==
    /\ client.gameState = "login"
    /\ client.username # ""
    /\ net.join.stage = "idle"
    /\ connectToGame
    /\ ServerAlone

\* handleReconnect (lines 323-325): Reconnect on the disconnected screen.
HandleReconnect ==
    /\ client.gameState = "disconnected"
    /\ net.join.stage = "idle"
    /\ connectToGame
    /\ ServerAlone

\* connectToGame (lines 85-98) from the join response on: on success
\* startGameUpdates (lines 102-143) replaces the interval and calls updateGame
\* once, both with the closure connectToGame was made with.
Joined ==
    /\ net.join.stage = "answered"
    /\ IF net.join.ok /\ joinResponse(net.join.request).success
       THEN LET cl == client.connectToGame.startGameUpdates
            IN  /\ MayRun
                /\ client' = [client EXCEPT
                                !.connectionStatus = "connected",
                                !.gameState = "playing",
                                !.updateIntervalRef = [set |-> TRUE, closure |-> cl]]
                /\ net' = [net EXCEPT !.join = NoCall,
                                      !.update[FreeSlot] = updateGame(cl)]
       ELSE /\ client' = [client EXCEPT !.connectionStatus = "disconnected",
                                        !.gameState = "disconnected"]
            /\ net' = [net EXCEPT !.join = NoCall]
    /\ ServerAlone

\* The interval fires (line 142): updateGame runs to its first await.
UpdateGame ==
    /\ client.updateIntervalRef.set
    /\ MayRun
    /\ net' = [net EXCEPT !.update[FreeSlot] =
                              updateGame(client.updateIntervalRef.closure)]
    /\ UNCHANGED client
    /\ ServerAlone

\* updateGame (lines 117-121) from the move response on: the client after it.
moveAnswered(run) ==
    IF run.ok
    THEN [client EXCEPT !.movementQueueRef = NoMove]
    ELSE [client EXCEPT !.connectionStatus = "disconnected"]

\* updateGame (lines 121-138) from the GET response on: the client after it.
getAnswered(run) ==
    LET gameData == run.body
    IN  IF run.ok
        THEN IF gameData.lastUpdate > run.closure.lastServerUpdate
             THEN [client EXCEPT !.players = gameData.players,
                                 !.food = gameData.food,
                                 !.lastServerUpdate = gameData.lastUpdate,
                                 !.connectionStatus = "connected"]
             ELSE [client EXCEPT !.connectionStatus = "connected"]
        ELSE [client EXCEPT !.connectionStatus = "disconnected"]

\* A run of updateGame resumes with the response it awaits: after its move
\* POST it goes on to the GET, after its GET or a failure it ends.
Resumes ==
    \E s \in Slots :
        LET run == net.update[s]
        IN  /\ run.stage = "answered"
            /\ client' = IF run.pc = "move" THEN moveAnswered(run) ELSE getAnswered(run)
            /\ net' = [net EXCEPT !.update[s] =
                          IF run.pc = "move" /\ run.ok
                          THEN [run EXCEPT !.pc = "get", !.stage = "sent",
                                           !.ok = FALSE, !.request = NoRequest]
                          ELSE NoUpdate]
            /\ ServerAlone

\* handleKeyDown and handleKeyUp (lines 147-153), while the game is shown.
HandleKey ==
    /\ client.gameState = "playing"
    /\ \E keys \in KeyInputs :
        /\ keys # client.keysRef
        /\ client' = [client EXCEPT !.keysRef = keys]
    /\ UNCHANGED net
    /\ ServerAlone

\* The game-loop effect (lines 165-166, 226-232) has a frame scheduled.
animationFrameRef ==
    /\ client.gameState = "playing"
    /\ client.myPlayerId # ""
    /\ client.myPlayerId \in DOMAIN client.players

\* The candidate position of gameLoop (lines 172-192).
candidate(keys, myPlayer) ==
    LET up == IF "w" \in keys \/ "arrowup" \in keys
              THEN Max(0, myPlayer.y - MOVE_SPEED) ELSE myPlayer.y
        newY == IF "s" \in keys \/ "arrowdown" \in keys
                THEN Min(CANVAS_HEIGHT - PLAYER_SIZE, up + MOVE_SPEED) ELSE up
        left == IF "a" \in keys \/ "arrowleft" \in keys
                THEN Max(0, myPlayer.x - MOVE_SPEED) ELSE myPlayer.x
        newX == IF "d" \in keys \/ "arrowright" \in keys
                THEN Min(CANVAS_WIDTH - PLAYER_SIZE, left + MOVE_SPEED) ELSE left
    IN  [x |-> newX, y |-> newY]

\* moved of gameLoop: a movement key is held.
moved(keys) ==
    keys \cap {"w", "arrowup", "s", "arrowdown", "a", "arrowleft", "d", "arrowright"} # {}

\* The collision test of gameLoop (lines 208-213), distances squared and
\* doubled sizes halved: PLAYER_SIZE / 2 + FOOD_SIZE / 2 = 14.
collides(pos, foodItem) ==
    LET dx == (pos.x + PLAYER_SIZE \div 2) - (foodItem.x + FOOD_SIZE \div 2)
        dy == (pos.y + PLAYER_SIZE \div 2) - (foodItem.y + FOOD_SIZE \div 2)
        reach == PLAYER_SIZE \div 2 + FOOD_SIZE \div 2
    IN  dx * dx + dy * dy < reach * reach

\* gameLoop (lines 168-224): one animation frame.
GameLoop ==
    /\ animationFrameRef
    /\ LET myPlayer == client.players[client.myPlayerId]
           new == candidate(client.keysRef, myPlayer)
           queue == moved(client.keysRef) /\ new # client.lastPositionRef
           touched == {i \in 1..Len(client.food) : collides(new, client.food[i])}
       IN  /\ new.x >= CANVAS_WIDTH - PLAYER_SIZE - MaxWalk * MOVE_SPEED
           /\ client' =
                IF queue
                THEN [client EXCEPT
                        !.lastPositionRef = new,
                        !.movementQueueRef = new,
                        !.players[client.myPlayerId] =
                            [@ EXCEPT !.x = new.x, !.y = new.y],
                        !.frames = 1 - @]
                ELSE [client EXCEPT !.frames = 1 - @]
           /\ net' = [net EXCEPT !.collects =
                        @ \cup {CollectRequest(client.myPlayerId, client.food[i].id) :
                                    i \in touched}]
    /\ ServerAlone

\* The state handleLeaveGame ends in (lines 316-320), for the client c.
leftGame(c) ==
    [c EXCEPT !.gameState = "login", !.players = <<>>, !.food = <<>>,
              !.myPlayerId = "", !.connectionStatus = "disconnected"]

\* handleLeaveGame (lines 300-310) up to `await apiCall(leave)`: Leave Game on
\* the game screen, Back to Menu on the disconnected screen.  It clears the
\* interval first; with no player id it goes on to the reset at once.
HandleLeaveGame ==
    /\ client.gameState \in {"playing", "disconnected"}
    /\ net.leave.stage = "idle"
    /\ IF client.myPlayerId # ""
       THEN /\ client' = [client EXCEPT !.updateIntervalRef = NoTimer]
            /\ net' = [net EXCEPT !.leave =
                          [stage |-> "sent", ok |-> FALSE,
                           request |-> LeaveRequest(client.myPlayerId)]]
       ELSE /\ client' = leftGame([client EXCEPT !.updateIntervalRef = NoTimer])
            /\ UNCHANGED net
    /\ ServerAlone

\* handleLeaveGame (lines 311-320) from the leave response on, failed or not.
Left ==
    /\ net.leave.stage = "answered"
    /\ client' = leftGame(client)
    /\ net' = [net EXCEPT !.leave = NoCall]
    /\ ServerAlone

\* The calls of the client the server has not handled yet; a GET has no body.
Calls ==
    {[kind |-> "join", slot |-> "", request |-> net.join.request] :
        k \in {k \in {"join"} : net.join.stage = "sent"}}
    \cup {[kind |-> "leave", slot |-> "", request |-> net.leave.request] :
            k \in {k \in {"leave"} : net.leave.stage = "sent"}}
    \cup {[kind |-> "update", slot |-> s, request |-> net.update[s].request] :
            s \in {s \in Slots : net.update[s].stage = "sent"}}
    \cup {[kind |-> "collect", slot |-> "", request |-> r] : r \in net.collects}

\* The route handles a call: GET (lines 585-602) or POST (lines 604-698).
serve(call) ==
    IF call.request = NoRequest
    THEN cleanupPlayers
    ELSE handle(call.request) /\ UNCHANGED lastCleanup

\* The call is answered: the client's await has its response; nobody awaits
\* the response of a collectFood (line 219).
served(call) ==
    CASE call.kind = "join" ->
            [net EXCEPT !.join.stage = "answered", !.join.ok = TRUE]
      [] call.kind = "leave" ->
            [net EXCEPT !.leave.stage = "answered", !.leave.ok = TRUE]
      [] call.kind = "update" ->
            [net EXCEPT !.update[call.slot].stage = "answered",
                        !.update[call.slot].ok = TRUE,
                        !.update[call.slot].body =
                            IF call.request = NoRequest
                            THEN getBody(players', food', lastUpdate')
                            ELSE NoSnapshot]
      [] OTHER -> [net EXCEPT !.collects = @ \ {call.request}]

\* The server handles one of the client's calls.
Serves ==
    \E call \in Calls :
        /\ serve(call)
        /\ net' = served(call)
        /\ CallAlone

\* A call fails in transport: the server never sees it and apiCall throws.
Fails ==
    /\ \/ /\ net.join.stage = "sent"
          /\ net' = [net EXCEPT !.join.stage = "answered"]
       \/ /\ net.leave.stage = "sent"
          /\ net' = [net EXCEPT !.leave.stage = "answered"]
       \/ \E s \in Slots :
            /\ net.update[s].stage = "sent"
            /\ net' = [net EXCEPT !.update[s].stage = "answered"]
    /\ UNCHANGED client
    /\ ServerAlone

ClientNext ==
    \/ HandleChange
    \/ HandleJoinGame
    \/ HandleReconnect
    \/ Joined
    \/ UpdateGame
    \/ Resumes
    \/ HandleKey
    \/ GameLoop
    \/ HandleLeaveGame
    \/ Left
    \/ Serves
    \/ Fails

SpecClient == Init /\ [][ClientNext]_vars

\* A client that joins once and stays in the game, every call answered.
PlayingNext ==
    \/ HandleChange
    \/ HandleJoinGame
    \/ Joined
    \/ UpdateGame
    \/ Resumes
    \/ HandleKey
    \/ GameLoop
    \/ Serves

\* The interval keeps firing (setInterval, line 142), the server answers each
\* call and each awaiting run of updateGame resumes.
SpecPlaying ==
    /\ Init
    /\ [][PlayingNext]_vars
    /\ WF_vars(UpdateGame)
    /\ WF_vars(Serves)
    /\ WF_vars(Resumes)

\* One POST at a time, its response kept, with reads in between.
LateNext ==
    \/ Tick
    \/ PostStep
    \/ GET

SpecLate == Init /\ [][LateNext]_vars

\* Time passes between two network ticks of a client that stays in the game:
\* the GET of the last tick was handled at the present time, its run of
\* updateGame has ended with the snapshot, and less than PLAYER_TIMEOUT goes
\* by before the next one.
Elapse ==
    /\ client.gameState = "playing"
    /\ client.connectionStatus = "connected"
    /\ Idle = Slots
    /\ lastCleanup.now = clock
    /\ Tick

\* A client that joins once and stays in the game with every call answered,
\* while time passes.
PollingNext ==
    \/ PlayingNext
    \/ Elapse

SpecPolling == Init /\ [][PollingNext]_vars

\* ------------------------------------------------------------------- claims
InField(p) ==
    /\ 0 <= p.x /\ p.x <= CANVAS_WIDTH - PLAYER_SIZE
    /\ 0 <= p.y /\ p.y <= CANVAS_HEIGHT - PLAYER_SIZE

\* The point of [lo, hi] nearest to v.
Nearest(v, lo, hi) == IF v < lo THEN lo ELSE IF v > hi THEN hi ELSE v

\* A move of a present player is answered with success and stores the
\* point of the field nearest to the (x, y) it was given.
MoveIsClamped ==
    \A r \in MoveRequests :
        (Move(r) /\ Alone /\ r.playerId \in DOMAIN players) =>
            /\ moveResponse(r).status = 200 /\ moveResponse(r).success
            /\ players'[r.playerId].x = Nearest(r.x, 0, CANVAS_WIDTH - PLAYER_SIZE)
            /\ players'[r.playerId].y = Nearest(r.y, 0, CANVAS_HEIGHT - PLAYER_SIZE)

\* C1: after any sequence of join and move intents, with (x, y) negative or
\* far out of range, every stored player position lies in
\* [0, FIELD_WIDTH - PLAYER_SIZE] x [0, FIELD_HEIGHT - PLAYER_SIZE]; an
\* out-of-range move is not rejected, it is clamped.
C1_PositionsInField ==
    /\ [](\A id \in DOMAIN players : InField(players[id]))
    /\ [][MoveIsClamped]_vars

\* C1 witness: a player stands at (780, 0), which no join draws: the move to
\* (100000, -50) has been clamped on both axes.
C1_Witness ==
    \E id \in DOMAIN players :
        /\ players[id].x = CANVAS_WIDTH - PLAYER_SIZE
        /\ players[id].y = 0

FoodIds(f) == {f[i].id : i \in 1..Len(f)}

\* A successful collectFood takes the named item out of the list and puts
\* one item with a new id in.
CollectIsPaired ==
    \A r \in CollectRequests :
        (collectResponse(r).success /\ foodSeq' # foodSeq /\ CollectFood(r) /\ Alone) =>
            /\ Len(food') = Len(food)
            /\ r.foodId \in FoodIds(food)
            /\ \E n \in FoodIds(food') \ FoodIds(food) :
                FoodIds(food') = (FoodIds(food) \ {r.foodId}) \cup {n}

\* C2: once the pool has been initialized (by the first join), the food list
\* holds FOOD_COUNT items in every state, and every successful collectFood
\* removes one item and spawns one, leaving the count as it was.
C2_FoodCount ==
    /\ []((foodSeq > 0 \/ DOMAIN players # {}) => Len(food) = FOOD_COUNT)
    /\ [][CollectIsPaired]_vars

\* C2 witness: two items have been collected and replaced, and the pool is
\* still full.
C2_Witness ==
    /\ foodSeq = FOOD_COUNT + 2
    /\ Len(food) = FOOD_COUNT
    /\ \E id \in DOMAIN players : players[id].score = 2

Present(id) == id \in DOMAIN players

\* The step is a successful collectFood of player id.
CollectedBy(id) ==
    \E r \in CollectRequests :
        r.playerId = id /\ collectResponse(r).success /\ foodSeq' # foodSeq
        /\ CollectFood(r) /\ Alone

\* C3: while a player id stays present, its score never decreases; the score
\* goes up by exactly 1 on an accepted collectFood and changes on no other
\* operation (join, move, heartbeat, leave, read).
C3_ScoreNeverDecreases ==
    [][\A id \in DOMAIN players \cap DOMAIN players' :
          /\ players'[id].score >= players[id].score
          /\ CollectedBy(id) => players'[id].score = players[id].score + 1
          /\ players'[id].score # players[id].score => CollectedBy(id)]_vars

\* The step is one of the state-changing operations: a join, a move of a
\* present player, a successful collectFood, a leave of a present player.
StateChanging ==
    /\ Alone
    /\ \/ \E r \in JoinRequests : Join(r)
       \/ \E r \in MoveRequests : Move(r) /\ Present(r.playerId)
       \/ \E r \in CollectRequests :
             collectResponse(r).success /\ foodSeq' # foodSeq /\ CollectFood(r)
       \/ \E r \in LeaveRequests : Leave(r) /\ Present(r.playerId)

\* C5: gameState.lastUpdate after a state-changing operation is strictly
\* greater than before it, whatever the timing of the operations.
C5_CounterStrictlyIncreases == [][StateChanging => lastUpdate' > lastUpdate]_vars

\* C6: two snapshots a reader receives with the same lastUpdate carry the
\* same players (id, username, x, y, color, score) and the same food list.
C6_SameCounterSameData ==
    [][(Poll /\ snapshot # NoSnapshot /\ snapshot'.lastUpdate = snapshot.lastUpdate) =>
          /\ snapshot'.players = snapshot.players
          /\ snapshot'.food = snapshot.food]_vars

\* C7: a heartbeat for a present player changes that player's lastUpdate and
\* nothing else: the counter, the food list, the set of players, every
\* player's public fields and the other players' records stay as they were.
C7_HeartbeatTouchesOnly ==
    [][\A r \in HeartbeatRequests :
          (Heartbeat(r) /\ Alone /\ Present(r.playerId)) =>
              /\ lastUpdate' = lastUpdate
              /\ food' = food
              /\ DOMAIN players' = DOMAIN players
              /\ \A id \in DOMAIN players :
                    publicPlayer(players'[id]) = publicPlayer(players[id])
              /\ \A id \in DOMAIN players \ {r.playerId} : players'[id] = players[id]
              /\ players'[r.playerId].lastUpdate = clock]_vars

\* C7 witness: a player's last activity is later than the counter, which
\* only a heartbeat brings about (every other case that stamps the player
\* stamps the counter too).
C7_Witness ==
    \E id \in DOMAIN players :
        /\ players[id].lastUpdate > lastUpdate
        /\ players[id].lastUpdate = clock

\* C8: a read that evicts nobody leaves players, food and counter unchanged;
\* a read that evicts one or more players removes them and bumps the counter,
\* once for the batch.
C8_ReadBumpsOncePerBatch ==
    [][GET =>
          LET gone == {id \in DOMAIN players : clock - players[id].lastUpdate > PLAYER_TIMEOUT}
          IN  IF gone = {}
              THEN UNCHANGED <<players, food, lastUpdate>>
              ELSE /\ DOMAIN players' = DOMAIN players \ gone
                   /\ food' = food
                   /\ lastUpdate' > lastUpdate]_vars

\* A record that is created or changed carries the time of the change.
ActivityIsStamped ==
    \A id \in DOMAIN players' :
        (id \notin DOMAIN players \/ players'[id] # players[id]) =>
            players'[id].lastUpdate = clock

\* The snapshot of a read has none of the players whose last activity is
\* more than PLAYER_TIMEOUT ago and all of those whose last activity is less
\* than PLAYER_TIMEOUT ago.
ReadEvicts ==
    GET =>
        LET body == getBody(players', food', lastUpdate')
        IN  \A id \in DOMAIN players :
                /\ clock - players[id].lastUpdate > PLAYER_TIMEOUT =>
                      id \notin DOMAIN body.players
                /\ clock - players[id].lastUpdate < PLAYER_TIMEOUT =>
                      id \in DOMAIN body.players

\* C9: at every read, a player whose last activity (join, move, successful
\* collect, heartbeat) is older than PLAYER_TIMEOUT is absent from the
\* snapshot, and one whose last activity is less than PLAYER_TIMEOUT ago is
\* in it.
C9_EvictionByTimeout == [][ActivityIsStamped /\ ReadEvicts]_vars

\* C9 witness: the last read has evicted p1, and p2, whose last activity is
\* earlier than the read but less than PLAYER_TIMEOUT ago, is still there.
C9_Witness ==
    /\ lastCleanup = [now |-> clock, playersToRemove |-> {"p1"}]
    /\ lastUpdate = clock
    /\ DOMAIN players = {"p2"}
    /\ players["p2"].lastUpdate < clock
    /\ clock - players["p2"].lastUpdate < PLAYER_TIMEOUT

\* C10: a join whose id is already present fails, leaves the existing
\* record as it was and creates no second record.
C10_DuplicateJoinRejected ==
    [][\A r \in JoinRequests :
          (Join(r) /\ Alone /\ Present(r.playerId)) =>
              /\ ~joinResponse(r).success
              /\ publicPlayer(players'[r.playerId]) = publicPlayer(players[r.playerId])
              /\ DOMAIN players' = DOMAIN players]_vars

\* The step is the handler of a collectFood request running to its return.
CollectFrame ==
    \A r \in CollectRequests :
        (CollectFood(r) /\ clock' = clock /\ snapshot' = snapshot) =>
            IF collectResponse(r).success
            THEN /\ players'[r.playerId].score = players[r.playerId].score + 1
                 /\ collectResponse(r).playerScore = players'[r.playerId].score
                 /\ \A id \in DOMAIN players \ {r.playerId} :
                        players'[id].score = players[id].score
                 /\ Len(food') = Len(food)
            ELSE UNCHANGED <<players, food, foodSeq, lastUpdate>>

\* Slot a's handler ran while slot b's request was in flight, both for a
\* collectFood of the same food id, which was present when a's handler
\* ran; both players were present when their handlers ran.
Raced(a, b) ==
    /\ a # b
    /\ responses[a].request.type = "collectFood"
    /\ responses[b].request.type = "collectFood"
    /\ responses[a].request.foodId = responses[b].request.foodId
    /\ b \in responses[a].during
    /\ responses[a].known /\ responses[a].found
    /\ responses[b].known

\* C4: of two collectFood requests in flight at once that name the same
\* present food id, sent by present players, one is answered success with
\* that player's score one higher, the other success:false with nothing
\* changed and nothing spawned; the food count stays the same.
C4_OneCollectorWins ==
    /\ [](\A a, b \in Slots :
            Raced(a, b) =>
                /\ responses[a].response.success
                /\ ~responses[b].response.success
                /\ ~responses[b].found
                /\ Len(food) = FOOD_COUNT)
    /\ [][CollectFrame]_vars

\* C4 witness: two different players' requests for the same food id were in
\* flight together and both have been answered, one with success.
C4_Witness ==
    \E a, b \in Slots :
        /\ Raced(a, b)
        /\ responses[a].request.playerId # responses[b].request.playerId
        /\ responses[a].response.success
        /\ responses[a].response.playerScore = 1
        /\ responses[b].response = Json(200, FALSE)

\* C11: leave(id) of a present player removes exactly that player and bumps
\* the counter; leave(id) of an absent player changes neither players, food
\* nor counter; the response is success both times, so that a second leave
\* leaves the world as the first left it.
C11_LeaveIdempotent ==
    [][\A r \in LeaveRequests :
          (Leave(r) /\ Alone) =>
              /\ leaveResponse(r).success
              /\ IF Present(r.playerId)
                 THEN /\ players' = mapDelete(players, {r.playerId})
                      /\ food' = food
                      /\ lastUpdate' > lastUpdate
                 ELSE UNCHANGED <<players, food, lastUpdate>>
              /\ r.playerId \notin DOMAIN players']_vars


\* Request r misses: a move or heartbeat of an unknown player, or a
\* collectFood of an unknown player or of a food id that is not in the list.
SoftMiss(r) ==
    \/ r.type \in {"move", "heartbeat"} /\ ~Present(r.playerId)
    \/ r.type = "collectFood"
          /\ (~Present(r.playerId) \/ r.foodId \notin FoodIds(food))

\* The step is the handler of request r, answered in slot "a".
PostOf(r) ==
    /\ handle(r)
    /\ responses'["a"].request = r
    /\ responses'["a"].response = postResponse(r)
    /\ UNCHANGED <<clock, lastCleanup, snapshot, requests, client, net>>

\* C12: a move or heartbeat for an unknown player is answered success, a
\* collectFood for an unknown player or a food id no longer present is
\* answered success:false, and each leaves the player set, every player's
\* fields, the food list and the counter as they were.
C12_SoftMissesChangeNothing ==
    [][\A r \in PostRequests :
          (SoftMiss(r) /\ PostOf(r)) =>
              /\ postResponse(r).status = 200
              /\ postResponse(r).success = (r.type # "collectFood")
              /\ UNCHANGED <<players, food, lastUpdate>>]_vars

\* C12 witness: p1 has collected a food item, and the last request, a
\* collectFood of p1 naming an id that is gone, was answered success:false
\* at a time later than the counter.
C12_Witness ==
    /\ responses["a"].request.type = "collectFood"
    /\ responses["a"].known /\ ~responses["a"].found
    /\ responses["a"].response = Json(200, FALSE)
    /\ Present("p1") /\ players["p1"].score = 1
    /\ Len(food) = FOOD_COUNT
    /\ lastUpdate < clock


\* The intent types the switch has a case for.
KnownTypes == {"join", "move", "collectFood", "heartbeat", "leave"}

\* C13: an intent whose type is none of join, move, collectFood, heartbeat,
\* leave is answered with a client error (a 4xx status, no success) and
\* changes neither the player set, nor the food list, nor the counter.
C13_UnknownTypeRejected ==
    [][\A r \in PostRequests :
          (r.type \notin KnownTypes /\ PostOf(r)) =>
              /\ postResponse(r).status \in 400..499
              /\ ~postResponse(r).success
              /\ UNCHANGED <<players, food, foodSeq, lastUpdate>>]_vars

\* C13 witness: with p1 in the game, the last request had an unknown type
\* and was answered 400, at a time later than the counter.
C13_Witness ==
    /\ responses["a"].request.type \notin KnownTypes \cup {"none"}
    /\ responses["a"].response.status = 400
    /\ Present("p1")
    /\ lastUpdate < clock

\* A network tick fires in slot s: a run of updateGame starts there.
Starts(s) == net.update[s].pc = "idle" /\ net'.update[s].pc # "idle"

\* An animation frame runs.
Frame == client'.frames # client.frames

\* The position of the client's own player in its local view.
Local(c) == [x |-> c.players[c.myPlayerId].x, y |-> c.players[c.myPlayerId].y]

C15_MoveBeforeSnapshot ==
    [][\A s \in Slots :
        /\ (Starts(s) /\ client'.gameState = "playing")
             => IF client.movementQueueRef # NoMove
                THEN /\ net'.update[s].pc = "move"
                     /\ net'.update[s].request.playerId = client'.myPlayerId
                ELSE net'.update[s].pc = "get"
        /\ (net.update[s].pc = "move" /\ net'.update[s].pc = "get")
             => net.update[s].stage = "answered"]_vars

\* A run of updateGame in slot s receives the snapshot it asked for.
Receives(s) ==
    /\ net.update[s].pc = "get"
    /\ net.update[s].stage = "answered"
    /\ net.update[s].ok
    /\ net'.update[s].pc = "idle"

\* C16: a received snapshot is applied only when its counter is strictly
\* greater than the last counter the client recorded, and is discarded
\* otherwise; the recorded counter never decreases.
C16_StaleSnapshotDiscarded ==
    [][/\ \A s \in Slots :
            Receives(s) =>
                LET gameData == net.update[s].body
                IN  IF gameData.lastUpdate > client.lastServerUpdate
                    THEN /\ client'.players = gameData.players
                         /\ client'.food = gameData.food
                         /\ client'.lastServerUpdate = gameData.lastUpdate
                    ELSE /\ client'.players = client.players
                         /\ client'.food = client.food
                         /\ client'.lastServerUpdate = client.lastServerUpdate
       /\ client'.lastServerUpdate >= client.lastServerUpdate]_vars

\* A run of updateGame in slot s resumes with a failed request.
Failed(s) == net.update[s].stage = "answered" /\ ~net.update[s].ok /\ net'.update[s].pc = "idle"

\* C17: a failed request while playing sets the connection state to
\* disconnected and is not retried automatically: no network tick sends a
\* request while the connection state is disconnected (the reconnect sets it
\* to connecting first).
C17_NoAutomaticRetry ==
    [][\A s \in Slots :
        /\ Failed(s) => client'.connectionStatus = "disconnected"
        /\ Starts(s) => client.connectionStatus # "disconnected"]_vars

\* C18: once leave has reset the client, its timers are cancelled and no
\* callback changes the players, the food, the player id or the connection
\* status until the next join.
C18_NothingAfterLeave ==
    /\ [](client.gameState = "login" => ~client.updateIntervalRef.set /\ ~animationFrameRef)
    /\ [][(client.gameState = "login" /\ client'.gameState = "login")
            => /\ client'.players = client.players
               /\ client'.food = client.food
               /\ client'.myPlayerId = client.myPlayerId
               /\ client'.connectionStatus = client.connectionStatus]_vars

\* C19: a movement tick with a movement key held whose candidate position
\* differs from the local player's current position moves the local view to
\* the candidate and queues it, also right after a snapshot replaced the
\* local position.
C19_MovementNotSuppressed ==
    [][(/\ Frame
        /\ moved(client.keysRef)
        /\ candidate(client.keysRef, Local(client)) # Local(client))
            => /\ Local(client') = candidate(client.keysRef, Local(client))
               /\ client'.movementQueueRef = Local(client')]_vars

\* The position q is on its way to the server in a move intent.
Transmitted(q) ==
    \E s \in Slots :
        /\ net.update[s].pc = "move"
        /\ net.update[s].request.x = q.x
        /\ net.update[s].request.y = q.y

\* C20: a pending move is never dropped unsent: the queue is emptied only of
\* a position that was transmitted, and once the player stops moving while
\* network ticks keep succeeding, the last queued position is eventually
\* transmitted.
C20_PendingMoveEventuallySent ==
    /\ [][(client.movementQueueRef # NoMove /\ client'.movementQueueRef = NoMove)
            => Transmitted(client.movementQueueRef)]_vars
    /\ (client.movementQueueRef # NoMove /\ client.keysRef = {})
          ~> (client.keysRef # {} \/ Transmitted(client.lastPositionRef))

\* C21: while the client stays in the game and its network ticks keep
\* succeeding, the server does not evict its player, also when the player
\* neither moves nor collects food for longer than PLAYER_TIMEOUT.
C21_PollingClientNotEvicted ==
    [][(/\ client.gameState = "playing"
        /\ client.connectionStatus = "connected"
        /\ client.myPlayerId \in DOMAIN players)
            => client.myPlayerId \in DOMAIN players']_vars

\* The intents that are not a join.
OtherRequests ==
    MoveRequests \cup CollectRequests \cup HeartbeatRequests \cup LeaveRequests

\* C22: only join adds a player: an id that is not in the game is in it
\* after a step only if the step handled a join of that id, and a move,
\* collectFood, heartbeat or leave of an id that is not in the game (never
\* joined, or removed by leave or by cleanupPlayers) changes neither the
\* players, nor the food, nor the counter.
C22_OnlyJoinAddsPlayers ==
    [][/\ \A id \in PlayerIds :
            (~Present(id) /\ id \in DOMAIN players')
                => \E r \in JoinRequests : r.playerId = id /\ PostOf(r)
       /\ \A r \in OtherRequests :
            (~Present(r.playerId) /\ PostOf(r))
                => UNCHANGED <<players, food, foodSeq, lastUpdate>>]_vars

\* C22 witness: the last read evicted p1, and the last intent, handled after
\* p1 was gone, was a collectFood of p1 naming a food item that is in the
\* list; p1 is still not in the game and the list is whole.
C22_Witness ==
    /\ lastCleanup.playersToRemove = {"p1"}
    /\ responses["a"].request.type = "collectFood"
    /\ responses["a"].request.playerId = "p1"
    /\ ~responses["a"].known /\ responses["a"].found
    /\ ~Present("p1")
    /\ Len(food) = FOOD_COUNT
    /\ foodSeq = FOOD_COUNT

====
